---- MODULE Spec2Model ----
(***************************************************************************)
(* Model of the bulk form submitter, src/auto_submit_gform.py: the run     *)
(* driver main(), the retrying submitter post_with_retries(), the ledger   *)
(* writer write_log_row() and the resume reader read_resume_index().       *)
(*                                                                         *)
(* The ledger file is a sequence of CSV lines; a line is either the header *)
(* or an outcome row.  Only the columns the driver reads back (row_index,  *)
(* success) and the status column are kept; the success column holds the   *)
(* text csv.writer produces for a Python bool ("True"/"False") and the     *)
(* status column an integer, with NoStatus standing for Python's None.     *)
(*                                                                         *)
(* The reconciler main() of src/verify_submissions.py reads the same file  *)
(* and a source table and leaves its findings in report.                   *)
(***************************************************************************)
EXTENDS Integers, Sequences, FiniteSets, TLC

\* ---------------------------------------------------------------- bounds
MaxRows == 3          \* largest source table (rows 0 .. MaxRows-1)
MaxLedger == 3        \* most outcome rows the ledger may hold
MaxRetriesBound == 1  \* largest --max-retries value tried
MaxTestRows == 2      \* largest --test-rows value tried

\* ------------------------------------------------------ program constants
DRY_RUN_ROWS == 5     \* list(indices)[:5]
STATUS_LOW == 200     \* 200 <= status
STATUS_HIGH == 400    \* status < 400
NoStatus == 0         \* Python None in a status position
ExcOutcome == -1      \* session.post raised instead of returning
BAD_INDEX == -99      \* a row_index text that int() rejects

\* HTTP statuses the endpoint may answer with, and the transport exception.
StatusCodes == {199, 200, 399, 400}
Outcomes == StatusCodes \cup {ExcOutcome}

\* Field mapping keys (human column names) and the columns a CSV may have.
MappingKeys == {"Name", "Email"}
ColumnNames == {"Name", "Email"}

\* the header row write_log_row writes
LOG_COLUMNS == {"timestamp", "row_index", "Name", "Email", "success", "status",
                "payload_preview"}
HEADER == [kind |-> "header", cols |-> LOG_COLUMNS]

VARIABLES
    pc,            \* position of main(): idle, loop, post, write, done, aborted, failed
    args,          \* parsed command line of the current run and the CSV it names
    log_exists,    \* Path(log_path).exists()
    log_lines,     \* lines of the ledger file
    indices,       \* the range main() iterates: [start, stop)
    i,             \* loop variable of main()
    attempt,       \* post_with_retries: attempt
    sleeps,        \* post_with_retries: time.sleep calls made in the current call
    ret,           \* value returned by post_with_retries: [ok, status]
    outcomes,      \* history: outcomes of session.post in the call not yet logged
    submitted,     \* history: rows handed to post_with_retries in this run
    printed,       \* rows previewed by a dry run
    okRows,        \* history: rows for which a record with ok = True was written
    log_at_start,  \* history: the ledger file when the run started
    ok_at_start,   \* history: okRows when the run started
    src,           \* the reconciler's source table, a sequence of rows
    report,        \* what the reconciler produced
    mapping,       \* the field mapping: a sequence of <<human column, field id>>
    payload,       \* build_payload_from_row: its row argument and its result
    logs,          \* the log file of each per-chunk script for its input file
    writers        \* concurrent driver runs on one ledger: each run's position and locals

vars == <<pc, args, log_exists, log_lines, indices, i, attempt, sleeps, ret,
          outcomes, submitted, printed, okRows, log_at_start, ok_at_start,
          src, report, mapping, payload, logs, writers>>

\* ---------------------------------------------------------------- helpers
Max(S) == CHOOSE x \in S : \A y \in S : y <= x
Min2(a, b) == IF a <= b THEN a ELSE b
Last(s) == s[Len(s)]

\* str(bool) as csv.writer writes it
PyStr(b) == IF b THEN "True" ELSE "False"

\* str.lower() on the texts a success column can hold
Lower(s) ==
    CASE s = "True" -> "true"
      [] s = "TRUE" -> "true"
      [] s = "False" -> "false"
      [] s = "FALSE" -> "false"
      [] OTHER -> s

\* mutant: the membership test runs the wrong way round
validate_headers_swapped(columns, required_keys) ==
    {k \in columns : k \notin required_keys}

\* validate_headers(df, required_keys)
validate_headers(columns, required_keys) ==
    {k \in required_keys : k \notin columns}

\* mutant: the upper bound is inclusive
is_success_status_incl(status) ==
    STATUS_LOW <= status /\ status <= STATUS_HIGH

\* 200 <= status < 400
is_success_status(status) ==
    STATUS_LOW <= status /\ status < STATUS_HIGH

\* pd.read_csv: the first line names the columns, the rest are the rows
DataRows(lines) == IF lines = <<>> THEN <<>> ELSE Tail(lines)

IsSuccessRow(r) == Lower(r.success) = "true"

\* the columns pd.read_csv finds: those of the first line when it is a header
LogColumns(lines) ==
    IF lines # <<>> /\ lines[1].kind = "header" THEN lines[1].cols ELSE {}

\* read_resume_index raises: pd.read_csv on an empty file (EmptyDataError) or
\* on a line it cannot split (ParserError), or int() on the largest
\* row_index of the success rows when that is no integer text
read_resume_raises(exists, lines) ==
    /\ exists
    /\ \/ lines = <<>>
       \/ \E k \in DOMAIN lines : lines[k].kind = "garbage"
       \/ /\ {"success", "row_index"} \subseteq LogColumns(lines)
          /\ \E k \in DOMAIN DataRows(lines) :
                /\ IsSuccessRow(DataRows(lines)[k])
                /\ DataRows(lines)[k].row_index = BAD_INDEX

\* mutant: the run resumes one row too far
read_resume_index_skip(exists, lines) ==
    IF ~exists THEN 0
    ELSE IF ~({"success", "row_index"} \subseteq LogColumns(lines)) THEN 0
    ELSE LET success_rows == SelectSeq(DataRows(lines), IsSuccessRow)
         IN IF success_rows = <<>> THEN 0
            ELSE Max({success_rows[k].row_index : k \in DOMAIN success_rows}) + 2

\* mutant: the last successful index itself is returned
read_resume_index_last(exists, lines) ==
    IF ~exists THEN 0
    ELSE IF ~({"success", "row_index"} \subseteq LogColumns(lines)) THEN 0
    ELSE LET success_rows == SelectSeq(DataRows(lines), IsSuccessRow)
         IN IF success_rows = <<>> THEN 0
            ELSE Max({success_rows[k].row_index : k \in DOMAIN success_rows})

\* read_resume_index(log_path), when it returns
read_resume_index(exists, lines) ==
    IF ~exists THEN 0
    ELSE IF ~({"success", "row_index"} \subseteq LogColumns(lines)) THEN 0
    ELSE LET success_rows == SelectSeq(DataRows(lines), IsSuccessRow)
         IN IF success_rows = <<>> THEN 0
            ELSE Max({success_rows[k].row_index : k \in DOMAIN success_rows}) + 1

\* mutant: the file is opened for writing, not for appending
write_log_row_truncate(exists, lines, row_index, success, status) ==
    <<HEADER, [kind |-> "row", row_index |-> row_index,
               success |-> PyStr(success), status |-> status]>>

\* mutant: the header is written on every call
write_log_row_header_always(exists, lines, row_index, success, status) ==
    lines \o <<HEADER, [kind |-> "row", row_index |-> row_index,
                        success |-> PyStr(success), status |-> status]>>

\* write_log_row(log_path, row_index, name, email, success, status, preview)
write_log_row(exists, lines, row_index, success, status) ==
    LET row == [kind |-> "row", row_index |-> row_index,
                success |-> PyStr(success), status |-> status]
    IN IF ~exists THEN lines \o <<HEADER, row>> ELSE Append(lines, row)

\* mutant: the row limit is not offset by the start index
compute_indices_from_zero(start_index, total, test_rows) ==
    IF test_rows > 0
    THEN [start |-> start_index, stop |-> Min2(test_rows, total)]
    ELSE [start |-> start_index, stop |-> total]

\* indices = range(start_index, total), capped by --test-rows when > 0
compute_indices(start_index, total, test_rows) ==
    IF test_rows > 0
    THEN [start |-> start_index, stop |-> Min2(start_index + test_rows, total)]
    ELSE [start |-> start_index, stop |-> total]

RangeSet(r) == {k \in r.start .. (r.stop - 1) : TRUE}

\* list(indices)[:5]
DryRunRows(r) == {k \in RangeSet(r) : k < r.start + DRY_RUN_ROWS}

\* mutant: the retry budget is one short
retry_allowed_short(n, max_retries) == n < max_retries

\* while attempt <= max_retries
retry_allowed(n, max_retries) == n <= max_retries

\* mutant: the dry-run flag is not looked at
run_mode_live(a) == "loop"

\* if args.dry_run: preview and return; otherwise the row loop
run_mode(a) == IF a.dry_run THEN "dry" ELSE "loop"

NoRet == [ok |-> FALSE, status |-> NoStatus]

\* The command lines tried.  A CSV that does not exist has no columns and no
\* rows; a CSV that lacks a mapped column is tried with MaxRows rows; both
\* are tried with the default --test-rows and the smallest --max-retries,
\* which main() does not read before it returns.
ArgSets ==
    {a \in [csv_exists : BOOLEAN, columns : SUBSET ColumnNames, total : 0 .. MaxRows,
            resume : BOOLEAN, dry_run : BOOLEAN, test_rows : -1 .. MaxTestRows,
            max_retries : 0 .. MaxRetriesBound] :
        /\ ~a.csv_exists => (a.columns = {} /\ a.total = 0)
        /\ (a.csv_exists /\ a.columns # ColumnNames) => a.total = MaxRows
        /\ (~a.csv_exists \/ a.columns # ColumnNames) =>
              (a.test_rows = 0 /\ a.max_retries = 0)}

NoArgs == [csv_exists |-> FALSE, columns |-> {}, total |-> 0, resume |-> FALSE,
           dry_run |-> FALSE, test_rows |-> 0, max_retries |-> 0]

NumRecords == Len(DataRows(log_lines))

\* the reconciler has not run
NoReport == [state |-> "none"]

\* build_payload_from_row has not been called
NoPayload == [state |-> "none"]

\* the per-chunk scripts and their log files, none written yet
Scripts == {"post_chunk_poster", "retry_failed"}
NoLogs == [s \in Scripts |-> [exists |-> FALSE, lines |-> <<>>]]

\* no concurrent driver runs
NoWriters == <<>>

\* ------------------------------------------------------------------- Init
Init ==
    /\ pc = "idle"
    /\ args = NoArgs
    /\ log_exists = FALSE
    /\ log_lines = <<>>
    /\ indices = [start |-> 0, stop |-> 0]
    /\ i = 0
    /\ attempt = 0
    /\ sleeps = 0
    /\ ret = NoRet
    /\ outcomes = <<>>
    /\ submitted = <<>>
    /\ printed = {}
    /\ okRows = {}
    /\ log_at_start = [exists |-> FALSE, lines |-> <<>>]
    /\ ok_at_start = {}
    /\ src = <<>>
    /\ report = NoReport
    /\ mapping = <<>>
    /\ payload = NoPayload
    /\ logs = NoLogs
    /\ writers = NoWriters

\* ---------------------------------------------------------------- actions
Idle == pc = "idle"
Ended == pc \in {"done", "aborted", "failed"}

\* mutant: the resume flag is not looked at
LiveRange_noresume(a) == compute_indices(0, a.total, a.test_rows)

\* start_index and indices as main() computes them
LiveRange(a) ==
    compute_indices(IF a.resume THEN read_resume_index(log_exists, log_lines) ELSE 0,
                    a.total, a.test_rows)

\* main() up to the row loop: the precondition checks, the resume point (an
\* exception of read_resume_index is not caught and ends the run), the range
\* and, for a dry run, the previews and the return
main_start(a) ==
    /\ UNCHANGED <<src, report, mapping, payload, logs, writers>>
    /\ Idle
    /\ args' = a
    /\ i' = 0 /\ attempt' = 0 /\ sleeps' = 0 /\ ret' = NoRet
    /\ outcomes' = <<>> /\ submitted' = <<>>
    /\ log_at_start' = [exists |-> log_exists, lines |-> log_lines]
    /\ ok_at_start' = okRows
    /\ UNCHANGED <<log_exists, log_lines, okRows>>
    /\ IF ~a.csv_exists
       THEN pc' = "aborted" /\ UNCHANGED indices /\ printed' = {}
       ELSE IF validate_headers(a.columns, MappingKeys) # {}
       THEN pc' = "aborted" /\ UNCHANGED indices /\ printed' = {}
       ELSE IF a.resume /\ read_resume_raises(log_exists, log_lines)
       THEN pc' = "failed" /\ UNCHANGED indices /\ printed' = {}
       ELSE /\ indices' = LiveRange(a)
            /\ IF run_mode(a) = "dry"
               THEN /\ printed' = DryRunRows(LiveRange(a))
                    /\ pc' = "done"
               ELSE /\ NumRecords + Cardinality(RangeSet(LiveRange(a))) <= MaxLedger
                    /\ printed' = {}
                    /\ pc' = "loop"

\* mutant: the loop does not advance
main_next_row_repeat ==
    /\ UNCHANGED <<src, report, mapping, payload, logs, writers>>
    /\ pc = "loop"
    /\ LET nxt == IF submitted = <<>> THEN indices.start ELSE i
       IN /\ nxt < indices.stop
          /\ i' = nxt
          /\ submitted' = Append(submitted, nxt)
    /\ attempt' = 0 /\ sleeps' = 0 /\ outcomes' = <<>> /\ ret' = NoRet
    /\ pc' = "post"
    /\ UNCHANGED <<args, log_exists, log_lines, indices, printed, okRows,
                   log_at_start, ok_at_start>>

\* main(), the head of the row loop: first row, or the row after the last
\* one written; build the payload and call post_with_retries
main_next_row ==
    /\ UNCHANGED <<src, report, mapping, payload, logs, writers>>
    /\ pc = "loop"
    /\ LET nxt == IF submitted = <<>> THEN indices.start ELSE i + 1
       IN /\ nxt < indices.stop
          /\ i' = nxt
          /\ submitted' = Append(submitted, nxt)
    /\ attempt' = 0 /\ sleeps' = 0 /\ outcomes' = <<>> /\ ret' = NoRet
    /\ pc' = "post"
    /\ UNCHANGED <<args, log_exists, log_lines, indices, printed, okRows,
                   log_at_start, ok_at_start>>

\* mutant: a row that failed ends the loop
main_done_on_failure ==
    /\ UNCHANGED <<src, report, mapping, payload, logs, writers>>
    /\ pc = "loop"
    /\ \/ (IF submitted = <<>> THEN indices.start ELSE i + 1) >= indices.stop
       \/ submitted # <<>> /\ ~ret.ok
    /\ pc' = "done"
    /\ UNCHANGED <<args, log_exists, log_lines, indices, i, attempt, sleeps, ret,
                   outcomes, submitted, printed, okRows, log_at_start, ok_at_start>>

\* main(), the range is used up
main_done ==
    /\ UNCHANGED <<src, report, mapping, payload, logs, writers>>
    /\ pc = "loop"
    /\ (IF submitted = <<>> THEN indices.start ELSE i + 1) >= indices.stop
    /\ pc' = "done"
    /\ UNCHANGED <<args, log_exists, log_lines, indices, i, attempt, sleeps, ret,
                   outcomes, submitted, printed, okRows, log_at_start, ok_at_start>>

\* post_with_retries, one turn of the while loop with the endpoint answering o
post_attempt(o) ==
    /\ UNCHANGED <<src, report, mapping, payload, logs, writers>>
    /\ pc = "post"
    /\ retry_allowed(attempt, args.max_retries)
    /\ outcomes' = Append(outcomes, o)
    /\ IF o # ExcOutcome /\ is_success_status(o)
       THEN /\ ret' = [ok |-> TRUE, status |-> o]
            /\ pc' = "write"
            /\ UNCHANGED <<attempt, sleeps>>
       ELSE /\ attempt' = attempt + 1
            /\ sleeps' = sleeps + 1
            /\ UNCHANGED <<pc, ret>>
    /\ UNCHANGED <<args, log_exists, log_lines, indices, i, submitted, printed,
                   okRows, log_at_start, ok_at_start>>

\* post_with_retries, the while condition fails
post_exhausted ==
    /\ UNCHANGED <<src, report, mapping, payload, logs, writers>>
    /\ pc = "post"
    /\ ~retry_allowed(attempt, args.max_retries)
    /\ ret' = [ok |-> FALSE, status |-> NoStatus]
    /\ pc' = "write"
    /\ UNCHANGED <<args, log_exists, log_lines, indices, i, attempt, sleeps,
                   outcomes, submitted, printed, okRows, log_at_start, ok_at_start>>

\* mutant: the record is written once per attempt made
main_write_per_attempt ==
    /\ UNCHANGED <<src, report, mapping, payload, logs, writers>>
    /\ pc = "write"
    /\ log_lines' = IF Len(outcomes) > 1
                    THEN Append(write_log_row(log_exists, log_lines, i, FALSE, NoStatus),
                                [kind |-> "row", row_index |-> i,
                                 success |-> PyStr(ret.ok), status |-> ret.status])
                    ELSE write_log_row(log_exists, log_lines, i, ret.ok, ret.status)
    /\ log_exists' = TRUE
    /\ okRows' = IF ret.ok THEN okRows \cup {i} ELSE okRows
    /\ outcomes' = <<>>
    /\ pc' = "loop"
    /\ UNCHANGED <<args, indices, i, attempt, sleeps, ret, submitted,
                   printed, log_at_start, ok_at_start>>

\* mutant: only successful rows are logged
main_write_ok_only ==
    /\ UNCHANGED <<src, report, mapping, payload, logs, writers>>
    /\ pc = "write"
    /\ log_lines' = IF ret.ok
                    THEN write_log_row(log_exists, log_lines, i, ret.ok, ret.status)
                    ELSE log_lines
    /\ log_exists' = (log_exists \/ ret.ok)
    /\ okRows' = IF ret.ok THEN okRows \cup {i} ELSE okRows
    /\ outcomes' = <<>>
    /\ pc' = "loop"
    /\ UNCHANGED <<args, indices, i, attempt, sleeps, ret, submitted,
                   printed, log_at_start, ok_at_start>>

\* main(), the rest of the loop body: write_log_row and the inter-row sleep
main_write ==
    /\ UNCHANGED <<src, report, mapping, payload, logs, writers>>
    /\ pc = "write"
    /\ log_lines' = write_log_row(log_exists, log_lines, i, ret.ok, ret.status)
    /\ log_exists' = TRUE
    /\ okRows' = IF ret.ok THEN okRows \cup {i} ELSE okRows
    /\ outcomes' = <<>>
    /\ pc' = "loop"
    /\ UNCHANGED <<args, indices, i, attempt, sleeps, ret, submitted,
                   printed, log_at_start, ok_at_start>>

\* mutant: the record written last was still in a buffer and is lost
crash_torn ==
    /\ UNCHANGED <<src, report, mapping, payload, logs, writers>>
    /\ pc \in {"loop", "post", "write"}
    /\ pc' = "idle"
    /\ args' = NoArgs
    /\ indices' = [start |-> 0, stop |-> 0]
    /\ i' = 0 /\ attempt' = 0 /\ sleeps' = 0 /\ ret' = NoRet
    /\ outcomes' = <<>> /\ submitted' = <<>> /\ printed' = {}
    /\ log_lines' = IF Len(log_lines) > 2
                    THEN SubSeq(log_lines, 1, Len(log_lines) - 1) ELSE log_lines
    /\ log_at_start' = [exists |-> log_exists, lines |-> log_lines']
    /\ okRows' = {log_lines'[k].row_index :
                     k \in {n \in 2 .. Len(log_lines') : log_lines'[n].success = "True"}}
    /\ ok_at_start' = okRows'
    /\ UNCHANGED log_exists

\* the process is killed in the middle of a live run: nothing of the run is
\* left but the ledger file
crash ==
    /\ UNCHANGED <<src, report, mapping, payload, logs, writers>>
    /\ pc \in {"loop", "post", "write"}
    /\ pc' = "idle"
    /\ args' = NoArgs
    /\ indices' = [start |-> 0, stop |-> 0]
    /\ i' = 0 /\ attempt' = 0 /\ sleeps' = 0 /\ ret' = NoRet
    /\ outcomes' = <<>> /\ submitted' = <<>> /\ printed' = {}
    /\ log_at_start' = [exists |-> log_exists, lines |-> log_lines]
    /\ ok_at_start' = okRows
    /\ UNCHANGED <<log_exists, log_lines, okRows>>

\* main() has returned and the process is gone
main_exit ==
    /\ UNCHANGED <<src, report, mapping, payload, logs, writers>>
    /\ Ended
    /\ pc' = "idle"
    /\ args' = NoArgs
    /\ indices' = [start |-> 0, stop |-> 0]
    /\ i' = 0 /\ attempt' = 0 /\ sleeps' = 0 /\ ret' = NoRet
    /\ outcomes' = <<>> /\ submitted' = <<>> /\ printed' = {}
    /\ log_at_start' = [exists |-> log_exists, lines |-> log_lines]
    /\ ok_at_start' = okRows
    /\ UNCHANGED <<log_exists, log_lines, okRows>>

Next ==
    \/ \E a \in ArgSets : main_start(a)
    \/ main_next_row
    \/ main_done
    \/ \E o \in Outcomes : post_attempt(o)
    \/ post_exhausted
    \/ main_write
    \/ crash
    \/ main_exit

Spec == Init /\ [][Next]_vars

\* ------------------------------------------------------------ properties
\* Vocabulary of the properties, stated apart from the operators above.
LedgerRows == {log_lines[k] : k \in 2 .. Len(log_lines)}
StartRows == {log_at_start.lines[k] : k \in 2 .. Len(log_at_start.lines)}
SuccessIndices == {r.row_index : r \in {x \in LedgerRows : x.success = "True"}}
ResumePoint == read_resume_index(log_exists, log_lines)
ResumePointAtStart == read_resume_index(log_at_start.exists, log_at_start.lines)
Qualifies(o) == o \in 200 .. 399
InRun == pc \in {"loop", "post", "write", "done"} /\ ~args.dry_run
RowsInOrder == [k \in 1 .. Len(submitted) |-> indices.start + k - 1]

\* C1: the resume point is 1 + the largest row index holding a success = true
\* record, and 0 when the ledger is absent or holds no such record; the rows
\* recorded as successful are exactly those the driver obtained ok = True for.
C1_ResumePointLaw ==
    /\ SuccessIndices = okRows
    /\ ResumePoint = IF SuccessIndices = {} THEN 0 ELSE 1 + Max(SuccessIndices)
    /\ ~log_exists => ResumePoint = 0

\* a resumed run starts past a success left by an earlier run, with a failed
\* row of a higher index also on the ledger
C1_Witness ==
    /\ pc = "loop" /\ args.resume
    /\ ok_at_start # {}
    /\ indices.start = 1 + Max(ok_at_start)
    /\ \E r \in StartRows : r.success = "False" /\ r.row_index > Max(ok_at_start)

\* C2: a run started with resume submits no row that had a success = true
\* record when the run started.
C2_NoResubmitUnderResume ==
    args.resume => \A k \in DOMAIN submitted : submitted[k] \notin ok_at_start

C2_Witness ==
    /\ args.resume /\ pc = "done"
    /\ ok_at_start # {}
    /\ submitted # <<>>

\* C3: the resume point computed from the ledger during and after a run is
\* never below the one computed from the ledger the run started with.
C3_ResumePointMonotone == ResumePoint >= ResumePointAtStart

\* a run without resume re-submits row 0 below an earlier success and fails
C3_Witness ==
    /\ pc = "done" /\ ~args.resume /\ ~args.dry_run
    /\ ok_at_start # {}
    /\ Len(log_lines) > Len(log_at_start.lines)
    /\ Last(log_lines).success = "False"
    /\ Last(log_lines).row_index < Max(ok_at_start)

\* C4: after a live run that completes, every row index of its range has a
\* record in the ledger.
C4_Coverage ==
    (pc = "done" /\ ~args.dry_run) =>
        \A k \in RangeSet(indices) : \E r \in LedgerRows : r.row_index = k

\* a completed run over two rows or more, one of which exhausted its retries
C4_Witness ==
    /\ pc = "done" /\ ~args.dry_run
    /\ Cardinality(RangeSet(indices)) >= 2
    /\ log_at_start.lines = <<>>
    /\ \E r \in LedgerRows : r.success = "False"
    /\ \E r \in LedgerRows : r.success = "True"

\* C5: a dry run makes no HTTP attempt and leaves the ledger as it was.
C5_DryRunLaw ==
    (args.dry_run /\ pc # "idle") =>
        /\ submitted = <<>> /\ outcomes = <<>>
        /\ log_exists = log_at_start.exists
        /\ log_lines = log_at_start.lines

\* a dry run with resume and a row limit that previewed rows
C5_Witness ==
    /\ pc = "done" /\ args.dry_run /\ args.resume /\ args.test_rows > 0
    /\ printed # {}
    /\ log_exists

\* C6: with the source file missing or a mapped column absent from it, the
\* run ends with no row submitted and the ledger unchanged.
C6_PreconditionAbort ==
    (pc # "idle" /\ (~args.csv_exists \/ \E k \in MappingKeys : k \notin args.columns)) =>
        /\ pc = "aborted"
        /\ submitted = <<>> /\ outcomes = <<>> /\ printed = {}
        /\ log_exists = log_at_start.exists
        /\ log_lines = log_at_start.lines

\* a live run on a table with rows that lacks a mapped column
C6_Witness ==
    /\ pc = "aborted" /\ args.csv_exists /\ ~args.dry_run
    /\ args.total > 0
    /\ args.columns = {"Name"}

\* C7: post_with_retries returns success at the first qualifying attempt,
\* which is attempt k+1 after k <= maxRetries failures, and returns failure
\* after exactly maxRetries+1 attempts that all failed; it makes no more.
C7_BoundedRetry ==
    /\ Len(outcomes) <= args.max_retries + 1
    /\ \A k \in 1 .. Len(outcomes) - 1 : ~Qualifies(outcomes[k])
    /\ pc = "post" => \A k \in DOMAIN outcomes : ~Qualifies(outcomes[k])
    /\ pc = "write" =>
          IF ret.ok
          THEN outcomes # <<>> /\ Qualifies(Last(outcomes))
          ELSE /\ Len(outcomes) = args.max_retries + 1
               /\ \A k \in DOMAIN outcomes : ~Qualifies(outcomes[k])

\* success on the last attempt the budget allows, after maxRetries failures
C7_Witness ==
    /\ pc = "write" /\ ret.ok
    /\ args.max_retries >= 1
    /\ Len(outcomes) = args.max_retries + 1

\* C8: on exhaustion post_with_retries returns the HTTP status of its last
\* attempt, and no status only when that attempt raised.
C8_ExhaustionCarriesLastStatus ==
    (pc = "write" /\ ~ret.ok /\ outcomes # <<>>) =>
        ret.status = IF Last(outcomes) = ExcOutcome THEN NoStatus ELSE Last(outcomes)

\* C9: an attempt is a success iff its status s has 200 <= s < 400; the call
\* goes on after every other status and after an exception, returns at the
\* first success, and ok is true iff there was one; the record written for
\* the row carries that flag (and, on success, that status).
C9_AttemptClassification ==
    /\ pc = "post" => \A k \in DOMAIN outcomes : ~Qualifies(outcomes[k])
    /\ pc = "write" =>
          /\ ret.ok <=> \E k \in DOMAIN outcomes : Qualifies(outcomes[k])
          /\ ret.ok => ret.status = Last(outcomes)
    /\ (pc = "loop" /\ submitted # <<>>) =>
          /\ Last(log_lines).row_index = i
          /\ Last(log_lines).success = "True" <=> ret.ok
          /\ ret.ok => Qualifies(Last(log_lines).status)
          /\ ~ret.ok => ~Qualifies(Last(log_lines).status)

\* a row recorded as a success on the redirect status 399, reached on the
\* retry after a failed attempt
C9_Witness ==
    /\ pc = "loop" /\ submitted # <<>>
    /\ attempt = 1 /\ ret.ok
    /\ Last(log_lines).success = "True"
    /\ Last(log_lines).status = 399

\* C10: a row that exhausts its retries is recorded with success = false and
\* the driver goes on: every failed attempt, an exception included, is
\* counted and the call keeps running; rows are submitted in order without a
\* gap, and a run that completes has submitted its whole range.
C10_RowFailureNotFatal ==
    /\ pc = "post" => attempt = Len(outcomes)
    /\ (pc = "loop" /\ submitted # <<>> /\ ~ret.ok) =>
          Last(log_lines).row_index = i /\ Last(log_lines).success = "False"
    /\ InRun => submitted = RowsInOrder
    /\ (pc = "done" /\ ~args.dry_run) =>
          {submitted[k] : k \in DOMAIN submitted} = RangeSet(indices)

\* the driver is submitting the row after one that was recorded as failed
C10_Witness ==
    /\ pc = "post"
    /\ Len(submitted) >= 2
    /\ Last(log_lines).success = "False"
    /\ Last(log_lines).row_index = i - 1
    /\ ExcOutcome \in {outcomes[k] : k \in DOMAIN outcomes}

\* records appended to the ledger since the run started
RunRows ==
    SubSeq(log_lines,
           IF log_at_start.lines = <<>> THEN 2 ELSE Len(log_at_start.lines) + 1,
           Len(log_lines))
RunRowIndices == {RunRows[k].row_index : k \in DOMAIN RunRows}
PastStart == pc \in {"loop", "post", "write", "done"}
IsPrefix(a, b) == Len(a) <= Len(b) /\ SubSeq(b, 1, Len(a)) = a

\* C11: a live run appends exactly one record for each row index of its
\* range, however many attempts the row took, and none for any other row.
C11_OneRecordPerRow ==
    (PastStart /\ ~args.dry_run) =>
        /\ \A j, k \in DOMAIN RunRows :
              RunRows[j].row_index = RunRows[k].row_index => j = k
        /\ RunRowIndices \subseteq RangeSet(indices)
        /\ pc = "done" =>
              /\ RunRowIndices = RangeSet(indices)
              /\ Len(RunRows) = Cardinality(RangeSet(indices))

\* a completed run over part of the table whose last row took a retry
C11_Witness ==
    /\ pc = "done" /\ ~args.dry_run
    /\ Len(RunRows) >= 2
    /\ attempt >= 1 /\ ret.ok
    /\ indices.stop < args.total

\* C13: the first row a run submits is the ledger's resume point with resume
\* and index 0 without it, whatever the ledger holds.
C13_StartIndex ==
    PastStart =>
        LET done == {r.row_index : r \in {x \in StartRows : x.success = "True"}}
            first == IF args.resume /\ done # {} THEN 1 + Max(done) ELSE 0
        IN /\ indices.start = first
           /\ submitted # <<>> => submitted[1] = first

\* a ledger holding only a success at index 0; the resumed run starts at 1
C13_Witness ==
    /\ args.resume /\ args.total = MaxRows
    /\ Len(log_at_start.lines) = 2
    /\ log_at_start.lines[2].row_index = 0
    /\ log_at_start.lines[2].success = "True"
    /\ submitted # <<>> /\ submitted[1] = 1

\* C14: for a source of length N, start s and limit L the run iterates
\* {i : s <= i < min(s+L, N)} when L > 0 and {i : s <= i < N} otherwise.
C14_RowLimit ==
    PastStart =>
        LET s == indices.start
            N == args.total
            L == args.test_rows
            expected == {k \in 0 .. N : s <= k /\ k < N /\ (L > 0 => k < s + L)}
        IN /\ RangeSet(indices) = expected
           /\ s >= N => RangeSet(indices) = {}
           /\ {submitted[k] : k \in DOMAIN submitted} \subseteq expected
           /\ (pc = "done" /\ ~args.dry_run) =>
                 {submitted[k] : k \in DOMAIN submitted} = expected

\* a resumed run limited to one row that stops short of the table's end
C14_Witness ==
    /\ pc = "done" /\ ~args.dry_run
    /\ indices.start >= 1
    /\ args.test_rows >= 1
    /\ indices.start + args.test_rows < args.total
    /\ Len(submitted) = args.test_rows

\* C20: the ledger only grows at its end: every write adds one record, the
\* header is written once, as the first line, when the file did not exist,
\* and no line already there changes.
C20_AppendOnly ==
    [][/\ IsPrefix(log_lines, log_lines')
       /\ log_exists => log_exists'
       /\ log_lines' # log_lines =>
             /\ pc = "write"
             /\ Len(log_lines') = Len(log_lines) + (IF log_exists THEN 1 ELSE 2)
             /\ Last(log_lines').kind = "row"
             /\ Last(log_lines').row_index = i
       /\ log_exists' =>
             /\ log_lines'[1] = HEADER
             /\ \A k \in 2 .. Len(log_lines') : log_lines'[k].kind = "row"]_vars

\* a later run has added a record to a ledger an earlier run created
C20_Witness ==
    /\ pc = "loop"
    /\ Len(log_at_start.lines) >= 2
    /\ Len(log_lines) = Len(log_at_start.lines) + 1

\* ------------------------------------------- further properties of the driver
\* C21: in a live run the record of every row submitted before row i is in
\* the ledger while the attempts for row i are made, and none for row i is;
\* between rows the records are those of all rows submitted; a success so
\* recorded is below the resume point; and a run that is killed leaves the
\* ledger file as it was at that moment.
C21_WriteThenContinue ==
    /\ [](InRun =>
            /\ pc \in {"post", "write"} =>
                  Len(RunRows) = Len(submitted) - 1 /\ i \notin RunRowIndices
            /\ pc \in {"loop", "done"} => Len(RunRows) = Len(submitted)
            /\ \A k \in DOMAIN RunRows :
                  /\ RunRows[k].row_index = submitted[k]
                  /\ RunRows[k].success = "True" => ResumePoint > submitted[k])
    /\ [][(pc \in {"loop", "post", "write"} /\ pc' = "idle") =>
              (log_lines' = log_lines /\ log_exists' = log_exists)]_vars

\* row i has had a failed attempt; the success of row i-1 is already counted
C21_Witness ==
    /\ pc = "post" /\ outcomes # <<>>
    /\ Len(submitted) >= 2
    /\ Len(RunRows) = Len(submitted) - 1
    /\ Last(RunRows).success = "True"
    /\ ResumePoint = i

\* the smallest row index without a success = true record
SmallestUnsucceeded ==
    CHOOSE k \in 0 .. MaxRows :
        k \notin SuccessIndices /\ \A j \in 0 .. k - 1 : j \in SuccessIndices

\* C22 as stated: the resume point is the smallest row index that has no
\* success = true record.
C22_SmallestUnsucceeded == ResumePoint = SmallestUnsucceeded

\* C22 amended: the resume point is just above the largest row index with a
\* success = true record; it is never below the smallest index without one
\* and equals it exactly when the successful indices are 0 .. k with no gap.
C22_AboveLargestSuccess ==
    /\ \A k \in SuccessIndices : k < ResumePoint
    /\ ResumePoint > 0 => (ResumePoint - 1) \in SuccessIndices
    /\ ResumePoint >= SmallestUnsucceeded
    /\ ResumePoint = SmallestUnsucceeded
           <=> SuccessIndices = 0 .. (SmallestUnsucceeded - 1)

\* one run recorded row 0 as failed and row 1 as successful
C22_Witness ==
    /\ Len(RunRows) >= 2
    /\ RunRows[1].row_index = 0 /\ RunRows[1].success = "False"
    /\ RunRows[2].row_index = 1 /\ RunRows[2].success = "True"
    /\ 0 \notin SuccessIndices
    /\ ResumePoint = 2

\* C23: within a run rows are submitted in strictly increasing index order,
\* each row of the range at most once; attempts exist only for the row at
\* hand, and a row is taken up only when no attempt is pending and every row
\* taken up before has its record.
C23_SequentialOrder ==
    /\ [](InRun =>
            /\ \A j, k \in DOMAIN submitted : j < k => submitted[j] < submitted[k]
            /\ {submitted[k] : k \in DOMAIN submitted} \subseteq RangeSet(indices)
            /\ submitted # <<>> => i = Last(submitted)
            /\ pc \in {"loop", "done"} => outcomes = <<>>
            /\ pc \in {"post", "write"} => submitted # <<>>)
    /\ [][(submitted' # submitted /\ submitted' # <<>>) =>
              /\ pc = "loop" /\ outcomes = <<>>
              /\ Len(RunRows) = Len(submitted)
              /\ submitted' = Append(submitted, i')
              /\ \A k \in DOMAIN submitted : submitted[k] < i']_vars

\* the third row of a run is being retried
C23_Witness ==
    /\ pc = "post" /\ attempt >= 1
    /\ Len(submitted) = 3
    /\ Len(RunRows) = 2

\* C24: a call of post_with_retries that made a attempts has slept a-1 times:
\* it sleeps before a retry only, never after its last attempt.
C24_BackoffPlacement ==
    pc = "write" => sleeps = Len(outcomes) - 1

\* C29: every row index below the resume point has a record in the ledger,
\* after any sequence of completed or killed runs (with or without resume).
C29_NoGapsBelowResumePoint ==
    LET point == IF SuccessIndices = {} THEN 0 ELSE 1 + Max(SuccessIndices)
    IN \A k \in 0 .. point - 1 : \E r \in LedgerRows : r.row_index = k

\* a resumed run adds to a ledger that holds a failed row below the resume
\* point
C29_Witness ==
    /\ args.resume /\ pc = "loop"
    /\ log_at_start.lines # <<>>
    /\ RunRows # <<>>
    /\ 0 \notin SuccessIndices
    /\ ResumePoint >= 2
    /\ ResumePoint > ResumePointAtStart
    /\ ResumePointAtStart >= 1

\* ------------------------------------------------- the end-to-end scenario
\* The driver on a 3-row source and an empty ledger, against a fake endpoint
\* that fails the first attempt at row 1 and accepts every other attempt.
E2EArgs ==
    {a \in ArgSets : /\ a.csv_exists /\ a.columns = ColumnNames /\ a.total = 3
                     /\ ~a.dry_run /\ a.test_rows <= 0 /\ a.max_retries >= 1}

\* what the fake endpoint may answer to attempt number n + 1 at a row
FakeEndpoint(row, n) ==
    IF row = 1 /\ n = 0
    THEN {o \in Outcomes : o = ExcOutcome \/ o < 200 \/ o >= 400}
    ELSE {o \in Outcomes : o # ExcOutcome /\ 200 <= o /\ o < 400}

e2e_start == ~log_exists /\ \E a \in E2EArgs : main_start(a)

e2e_post == \E o \in FakeEndpoint(i, Len(outcomes)) : post_attempt(o)

NextE2E ==
    \/ e2e_start
    \/ main_next_row
    \/ e2e_post
    \/ main_write
    \/ main_done
    \/ main_exit

SpecE2E == Init /\ [][NextE2E]_vars

RecordsOf(k) == {n \in 2 .. Len(log_lines) : log_lines[n].row_index = k}

\* C12 as stated: the run leaves 4 records, one each for rows 0 and 2 and two
\* for row 1, all rows end as successes and the resume point is 3.
C12_FourRecords ==
    pc = "done" =>
        /\ NumRecords = 4
        /\ Cardinality(RecordsOf(0)) = 1
        /\ Cardinality(RecordsOf(1)) = 2
        /\ Cardinality(RecordsOf(2)) = 1
        /\ SuccessIndices = {0, 1, 2}
        /\ ResumePoint = 3

\* C12 amended: the run leaves 3 records, one for each of rows 0, 1 and 2 (the
\* failed first attempt at row 1 has none), every record has success = true
\* and the resume point is 3.
C12_ThreeRecords ==
    pc = "done" =>
        /\ NumRecords = 3
        /\ \A k \in {0, 1, 2} : Cardinality(RecordsOf(k)) = 1
        /\ \A r \in LedgerRows : r.success = "True"
        /\ ResumePoint = 3

\* the scenario's run has completed; row 1 was recorded after its retry
C12_Witness ==
    /\ pc = "done"
    /\ Len(log_lines) = 4
    /\ log_lines[3].row_index = 1
    /\ log_lines[3].success = "True"

\* ---------------------------------------------- a ledger damaged from outside
\* The driver started on a ledger file it did not write itself: an empty
\* file, a table without the success or the row_index column, a line
\* pd.read_csv cannot split, a success record whose row_index is no integer.
OkRow(k) == [kind |-> "row", row_index |-> k, success |-> "True", status |-> 200]

CorruptLedgers ==
    { <<>>,
      <<[kind |-> "header", cols |-> LOG_COLUMNS \ {"success"}], OkRow(1)>>,
      <<[kind |-> "header", cols |-> LOG_COLUMNS \ {"row_index"}], OkRow(1)>>,
      <<HEADER, OkRow(0), [kind |-> "garbage"]>>,
      <<HEADER, OkRow(BAD_INDEX)>> }

InitCorrupt ==
    /\ pc = "idle"
    /\ args = NoArgs
    /\ log_exists = TRUE
    /\ log_lines \in CorruptLedgers
    /\ indices = [start |-> 0, stop |-> 0]
    /\ i = 0
    /\ attempt = 0
    /\ sleeps = 0
    /\ ret = NoRet
    /\ outcomes = <<>>
    /\ submitted = <<>>
    /\ printed = {}
    /\ okRows = {}
    /\ log_at_start = [exists |-> TRUE, lines |-> log_lines]
    /\ ok_at_start = {}
    /\ src = <<>>
    /\ report = NoReport
    /\ mapping = <<>>
    /\ payload = NoPayload
    /\ logs = NoLogs
    /\ writers = NoWriters

SpecCorrupt == InitCorrupt /\ [][Next]_vars

Malformed(exists, lines) ==
    /\ exists
    /\ \/ lines = <<>>
       \/ \E k \in DOMAIN lines : lines[k].kind = "garbage"
       \/ lines[1].kind # "header"
       \/ "success" \notin lines[1].cols
       \/ "row_index" \notin lines[1].cols
       \/ \E k \in DOMAIN lines :
             /\ lines[k].kind = "row"
             /\ lines[k].success = "True"
             /\ lines[k].row_index = BAD_INDEX

\* C19: a resumed run that finds a malformed ledger takes it as holding no
\* resume information: it does not fail and starts from index 0.
C19_CorruptLedgerStartsAtZero ==
    ( /\ args.resume /\ args.csv_exists /\ args.columns = ColumnNames
      /\ pc # "idle"
      /\ Malformed(log_at_start.exists, log_at_start.lines) ) =>
        /\ pc # "failed"
        /\ indices.start = 0

\* ------------------------------------------------------------ the reconciler
\* src/verify_submissions.py.  A source row maps column names to texts; a
\* ledger row carries its payload_preview, the text of a Python literal:
\*   [kind |-> "dict", d |-> f]   str() of a dict, f from field ids to texts
\*   [kind |-> "list"]            a literal that is no dict
\*   [kind |-> "empty"]           the empty text, which literal_eval rejects
MaxSrcRows == 2       \* largest source table the reconciler is given
MaxLogRows == 2       \* most records in the ledger the reconciler is given

NAME_ID == "entry.24240767"
DEPT_ID == "entry.283251996"
EMAIL_ID == "emailAddress"
REPORT_FIRST == 200   \* the report file lists the first 200 mismatches

\* field_map, in the order main() iterates it: <<entry key, friendly name>>
\* (the fields between Department and Email behave as Department does)
FIELD_MAP == << <<NAME_ID, "Name">>, <<DEPT_ID, "Department">>, <<EMAIL_ID, "Email">> >>

\* A text is the sequence of its characters.
EmptyText == <<>>
TextA == <<"a">>
TextSpA == <<" ", "a">>
TextB == <<"b">>
TextC == <<"c">>

\* str.lstrip() and str.rstrip(), for the blank
RECURSIVE LStrip(_)
LStrip(t) == IF t # <<>> /\ Head(t) = " " THEN LStrip(Tail(t)) ELSE t

RECURSIVE RStrip(_)
RStrip(t) ==
    IF t # <<>> /\ t[Len(t)] = " " THEN RStrip(SubSeq(t, 1, Len(t) - 1)) ELSE t

\* str.strip()
Strip(t) == RStrip(LStrip(t))

\* the source table of n rows: Name alternates "a" and " a", Email is "b",
\* and there is no Department column
SrcTable(n) ==
    [k \in 1 .. n |-> [Name |-> IF k % 2 = 1 THEN TextA ELSE TextSpA, Email |-> TextB]]

Previews ==
    {[kind |-> "dict", d |-> (NAME_ID :> x) @@ (EMAIL_ID :> TextB)] :
        x \in {TextA, TextSpA, TextB}}
    \cup {[kind |-> "dict", d |-> (NAME_ID :> TextB)],
          [kind |-> "dict",
           d |-> (NAME_ID :> TextA) @@ (DEPT_ID :> TextC) @@ (EMAIL_ID :> TextB)],
          [kind |-> "list"], [kind |-> "empty"]}

\* the records a ledger may hold: any index from -1 to MaxSrcRows, a success
\* with any preview or a failure
VerifyRows ==
    {[kind |-> "row", row_index |-> k, success |-> "True", status |-> 200,
      payload_preview |-> pv] : k \in -1 .. MaxSrcRows, pv \in Previews}
    \cup {[kind |-> "row", row_index |-> k, success |-> "False", status |-> NoStatus,
           payload_preview |-> [kind |-> "dict", d |-> (NAME_ID :> TextA) @@ (EMAIL_ID :> TextB)]] :
          k \in -1 .. MaxSrcRows}

RECURSIVE SeqsUpTo(_, _)
SeqsUpTo(S, n) ==
    IF n = 0 THEN {<<>>}
    ELSE LET shorter == SeqsUpTo(S, n - 1)
         IN shorter \cup {Append(q, x) : q \in {t \in shorter : Len(t) = n - 1}, x \in S}

\* parse_preview_field(preview): the dict, or None (parsed = FALSE)
parse_preview_field(preview) ==
    IF preview.kind = "dict"
    THEN [parsed |-> TRUE, d |-> preview.d]
    ELSE [parsed |-> FALSE, d |-> <<>>]

\* dict.get(key, "")
GetOr(d, key) == IF key \in DOMAIN d THEN d[key] ELSE EmptyText

\* mutant: the two values are compared as they stand
values_differ_unstripped(src_val, payload_val) == src_val # payload_val

\* src_val != payload_val, both stripped
values_differ(src_val, payload_val) == Strip(src_val) # Strip(payload_val)

\* the entries the field loop appends for one parsed record
RECURSIVE field_mismatches(_, _, _, _)
field_mismatches(idx, src_row, d, n) ==
    IF n > Len(FIELD_MAP) THEN <<>>
    ELSE LET entry_key == FIELD_MAP[n][1]
             friendly == FIELD_MAP[n][2]
             src_val == Strip(GetOr(src_row, friendly))
             payload_val == Strip(GetOr(d, entry_key))
             rest == field_mismatches(idx, src_row, d, n + 1)
         IN IF values_differ(GetOr(src_row, friendly), GetOr(d, entry_key))
            THEN <<[idx |-> idx, what |-> friendly, src_val |-> src_val,
                    payload_val |-> payload_val]>> \o rest
            ELSE rest

\* mutant: a preview that does not parse is passed over
record_mismatches_skip(row, table) ==
    LET idx == row.row_index
        parsed == parse_preview_field(row.payload_preview)
    IN IF idx < 0 \/ idx >= Len(table)
       THEN <<[idx |-> idx, what |-> "row_index_out_of_range"]>>
       ELSE IF ~parsed.parsed
       THEN <<>>
       ELSE field_mismatches(idx, table[idx + 1], parsed.d, 1)

\* the body of the loop over the success records
record_mismatches(row, table) ==
    LET idx == row.row_index
        parsed == parse_preview_field(row.payload_preview)
    IN IF idx < 0 \/ idx >= Len(table)
       THEN <<[idx |-> idx, what |-> "row_index_out_of_range"]>>
       ELSE IF ~parsed.parsed
       THEN <<[idx |-> idx, what |-> "could_not_parse_payload_preview"]>>
       ELSE field_mismatches(idx, table[idx + 1], parsed.d, 1)

RECURSIVE all_mismatches(_, _)
all_mismatches(rows, table) ==
    IF rows = <<>> THEN <<>>
    ELSE record_mismatches(Head(rows), table) \o all_mismatches(Tail(rows), table)

\* mutant: every logged index counts as submitted
submitted_row_indices_any(rows) == {rows[k].row_index : k \in DOMAIN rows}

\* the indices of the success records
submitted_row_indices(rows) ==
    {rows[k].row_index : k \in {n \in DOMAIN rows : IsSuccessRow(rows[n])}}

\* [i for i in range(total_rows) if i not in submitted_row_indices]
RECURSIVE missing_from(_, _, _)
missing_from(n, total_rows, done) ==
    IF n >= total_rows THEN <<>>
    ELSE IF n \in done THEN missing_from(n + 1, total_rows, done)
    ELSE <<n>> \o missing_from(n + 1, total_rows, done)

\* sorted(set)
RECURSIVE Sorted(_)
Sorted(S) ==
    IF S = {} THEN <<>>
    ELSE LET lo == CHOOSE x \in S : \A y \in S : x <= y
         IN <<lo>> \o Sorted(S \ {lo})

\* sorted(set(missing_indices) | set(failures['row_index']))
failed_indices_of(missing, rows) ==
    Sorted({missing[k] : k \in DOMAIN missing}
           \cup {rows[k].row_index : k \in {n \in DOMAIN rows : ~IsSuccessRow(rows[n])}})

\* src.iloc[failed_indices] raises IndexError on a position outside the table
iloc_raises(table, positions) ==
    \E k \in DOMAIN positions :
        positions[k] >= Len(table) \/ positions[k] < 0 - Len(table)

\* src.iloc[failed_indices]; a negative position counts from the end
iloc(table, positions) ==
    [k \in DOMAIN positions |->
        IF positions[k] < 0 THEN table[Len(table) + positions[k] + 1]
        ELSE table[positions[k] + 1]]

\* main() of verify_submissions.py
verify_main ==
    /\ report.state = "none"
    /\ pc = "idle"
    /\ IF ~log_exists
       THEN report' = [state |-> "exit"]
       ELSE LET rows == DataRows(log_lines)
                missing == missing_from(0, Len(src), submitted_row_indices(rows))
                failed == failed_indices_of(missing, rows)
                mismatches == all_mismatches(SelectSeq(rows, IsSuccessRow), src)
                found == [missing_indices |-> missing,
                          mismatches |-> mismatches,
                          written |-> SubSeq(mismatches, 1, Min2(Len(mismatches), REPORT_FIRST)),
                          failed_indices |-> failed]
            IN report' =
                 IF failed = <<>>
                 THEN found @@ [state |-> "done", failed_rows_written |-> FALSE,
                                failed_rows |-> <<>>]
                 ELSE IF iloc_raises(src, failed)
                 THEN found @@ [state |-> "index_error", failed_rows_written |-> FALSE,
                                failed_rows |-> <<>>]
                 ELSE found @@ [state |-> "done", failed_rows_written |-> TRUE,
                                failed_rows |-> iloc(src, failed)]
    /\ UNCHANGED <<pc, args, log_exists, log_lines, indices, i, attempt, sleeps, ret,
                   outcomes, submitted, printed, okRows, log_at_start, ok_at_start,
                   src, mapping, payload, logs, writers>>

\* the ledgers and source tables the reconciler is run on
InitVerify ==
    /\ pc = "idle"
    /\ args = NoArgs
    /\ \/ log_exists = FALSE /\ log_lines = <<>>
       \/ log_exists = TRUE
          /\ log_lines \in {<<HEADER>> \o q : q \in SeqsUpTo(VerifyRows, MaxLogRows)}
    /\ indices = [start |-> 0, stop |-> 0]
    /\ i = 0
    /\ attempt = 0
    /\ sleeps = 0
    /\ ret = NoRet
    /\ outcomes = <<>>
    /\ submitted = <<>>
    /\ printed = {}
    /\ okRows = {}
    /\ log_at_start = [exists |-> log_exists, lines |-> log_lines]
    /\ ok_at_start = {}
    /\ src \in {SrcTable(n) : n \in 0 .. MaxSrcRows}
    /\ report = NoReport
    /\ mapping = <<>>
    /\ payload = NoPayload
    /\ logs = NoLogs
    /\ writers = NoWriters

NextVerify == verify_main

SpecVerify == InitVerify /\ [][NextVerify]_vars

\* ------------------------------------------------ properties of the reconciler
\* the reconciler read both tables and wrote its report
Reported == report.state \in {"done", "index_error"}
SourceIndices == 0 .. Len(src) - 1
Records == 2 .. Len(log_lines)
HasSuccess(k) ==
    \E n \in Records : log_lines[n].row_index = k /\ log_lines[n].success = "True"
NoSuccessIndices == {k \in SourceIndices : ~HasSuccess(k)}
FieldNames == {FIELD_MAP[f][2] : f \in DOMAIN FIELD_MAP}
\* success records whose index is in range, with a preview that parses or not
Comparable == {n \in Records : /\ log_lines[n].success = "True"
                               /\ log_lines[n].row_index \in SourceIndices
                               /\ log_lines[n].payload_preview.kind = "dict"}
Unparseable == {n \in Records : /\ log_lines[n].success = "True"
                                /\ log_lines[n].payload_preview.kind # "dict"}
OutOfRange == {n \in Records : /\ log_lines[n].success = "True"
                               /\ log_lines[n].row_index \notin SourceIndices}
SourceValue(n, f) == Strip(GetOr(src[log_lines[n].row_index + 1], FIELD_MAP[f][2]))
LoggedValue(n, f) == Strip(GetOr(log_lines[n].payload_preview.d, FIELD_MAP[f][1]))
Differing == {p \in Comparable \X DOMAIN FIELD_MAP : SourceValue(p[1], p[2]) # LoggedValue(p[1], p[2])}
EntriesAt(k, what) ==
    {m \in DOMAIN report.mismatches :
        report.mismatches[m].idx = k /\ report.mismatches[m].what = what}

\* C15: the missing-index list is, in ascending order, exactly the source
\* indices 0..N-1 that have no success = true record in the ledger; failure
\* records and duplicate records do not change it.
C15_MissingIndices ==
    Reported =>
        LET m == report.missing_indices
        IN /\ \A k \in SourceIndices : (\E n \in DOMAIN m : m[n] = k) <=> ~HasSuccess(k)
           /\ \A n \in DOMAIN m : m[n] \in SourceIndices
           /\ \A a, b \in DOMAIN m : a < b => m[a] < m[b]

\* C27: every index selected for the retry-candidate table lies in 0..N-1 and
\* building the table does not fail.
C27_IndexSafety ==
    Reported =>
        /\ report.state # "index_error"
        /\ \A n \in DOMAIN report.failed_indices :
              report.failed_indices[n] \in SourceIndices

\* a 2-row source, a success record for row 0 and a failure record for row 1
C15_Witness ==
    /\ Reported
    /\ Len(src) = 2
    /\ HasSuccess(0)
    /\ \E n \in Records : log_lines[n].row_index = 1 /\ log_lines[n].success = "False"
    /\ report.missing_indices = <<1>>

\* C16: the retry-candidate table holds exactly the source rows whose indices
\* have no success = true record; a row with a failure record and a success
\* record is not in it.
C16_RetryCandidates ==
    Reported =>
        LET want == Sorted(NoSuccessIndices)
        IN IF want = <<>>
           THEN ~report.failed_rows_written
           ELSE /\ report.failed_rows_written
                /\ report.failed_rows = [n \in DOMAIN want |-> src[want[n] + 1]]

\* C17: every success record in range whose preview parses gets one entry
\* (index, field, source value, logged value) per mapped field whose trimmed
\* values differ and none for a field whose trimmed values are equal; failure
\* records contribute no entries.
C17_MismatchDetection ==
    Reported =>
        /\ \A n \in Comparable : \A f \in DOMAIN FIELD_MAP :
              LET e == [idx |-> log_lines[n].row_index, what |-> FIELD_MAP[f][2],
                        src_val |-> SourceValue(n, f), payload_val |-> LoggedValue(n, f)]
              IN (SourceValue(n, f) # LoggedValue(n, f))
                     <=> (\E m \in DOMAIN report.mismatches : report.mismatches[m] = e)
        /\ Cardinality({m \in DOMAIN report.mismatches :
                           report.mismatches[m].what \in FieldNames})
               = Cardinality(Differing)

\* a success record with one field that differs and one that is equal only
\* once trimmed, next to a failure record
C17_Witness ==
    /\ Reported
    /\ \E n \in Comparable : \E f, g \in DOMAIN FIELD_MAP :
          /\ SourceValue(n, f) # LoggedValue(n, f)
          /\ SourceValue(n, g) = LoggedValue(n, g)
          /\ GetOr(src[log_lines[n].row_index + 1], FIELD_MAP[g][2])
                 # GetOr(log_lines[n].payload_preview.d, FIELD_MAP[g][1])
    /\ \E n \in Records : log_lines[n].success = "False"
    /\ report.mismatches # <<>>

\* C18 as stated: every success record whose preview does not parse yields
\* exactly one entry (index, could_not_parse_payload_preview).
C18_ParseFailure ==
    Reported =>
        \A k \in -1 .. MaxSrcRows :
            Cardinality(EntriesAt(k, "could_not_parse_payload_preview"))
                = Cardinality({n \in Unparseable : log_lines[n].row_index = k})

\* C18 amended: every success record whose index is in range and whose
\* preview does not parse yields exactly one entry (index,
\* could_not_parse_payload_preview) and no per-field entry, and the other
\* records are still processed: the mismatch list has one entry per record out
\* of range, one per unparseable record in range and one per differing field.
C18_ParseFailureInRange ==
    Reported =>
        /\ \A k \in SourceIndices :
              /\ Cardinality(EntriesAt(k, "could_not_parse_payload_preview"))
                     = Cardinality({n \in Unparseable : log_lines[n].row_index = k})
              /\ (\A n \in Comparable : log_lines[n].row_index # k)
                     => \A what \in FieldNames : EntriesAt(k, what) = {}
        /\ Len(report.mismatches)
               = Cardinality(OutOfRange)
                 + Cardinality({n \in Unparseable : log_lines[n].row_index \in SourceIndices})
                 + Cardinality(Differing)
        /\ report.written = report.mismatches

\* an unparseable success record in range is followed by a record whose
\* mismatch is reported after it
C18_Witness ==
    /\ Reported
    /\ Len(log_lines) = 3
    /\ 2 \in Unparseable
    /\ log_lines[2].row_index \in SourceIndices
    /\ 3 \in Comparable
    /\ Len(report.mismatches) >= 2
    /\ report.mismatches[1] = [idx |-> log_lines[2].row_index,
                                 what |-> "could_not_parse_payload_preview"]
    /\ report.mismatches[2].what \in FieldNames

\* ------------------------------------------------- build_payload_from_row
\* A row maps the columns it has to a text or to pandas' missing value; a
\* payload maps field ids to texts.
MaxMapping == 3       \* most entries of a field mapping tried

SHARED_ID == "entry.YOUR_ENTRY_ID_HERE"

\* pandas' missing value, which is no text
NaN == <<"NaN">>

\* pd.isna(val)
pd_isna(val) == val = NaN

EmptyPayload == [k \in {} |-> EmptyText]

\* mutant: a column the row lacks, or lacks a value for, gets no key
RECURSIVE build_payload_from_row_omit(_, _)
build_payload_from_row_omit(row, items) ==
    IF items = <<>> THEN EmptyPayload
    ELSE LET before == build_payload_from_row_omit(row, SubSeq(items, 1, Len(items) - 1))
             human_col == items[Len(items)][1]
             entry_name == items[Len(items)][2]
         IN IF human_col \notin DOMAIN row \/ pd_isna(row[human_col])
            THEN before
            ELSE [k \in DOMAIN before \cup {entry_name} |->
                     IF k = entry_name THEN row[human_col] ELSE before[k]]

\* build_payload_from_row(row, mapping): the loop over mapping.items(), the
\* last item handled last
RECURSIVE build_payload_from_row(_, _)
build_payload_from_row(row, items) ==
    IF items = <<>> THEN EmptyPayload
    ELSE LET before == build_payload_from_row(row, SubSeq(items, 1, Len(items) - 1))
             human_col == items[Len(items)][1]
             entry_name == items[Len(items)][2]
             got == GetOr(row, human_col)
             val == IF pd_isna(got) THEN EmptyText ELSE got
         IN [k \in DOMAIN before \cup {entry_name} |->
                IF k = entry_name THEN val ELSE before[k]]

PayloadColumns == {"Name", "Department", "Email"}

\* the rows tried: any set of columns, each with a text or the missing value
PayloadRows ==
    UNION {[cols -> {TextA, TextB, EmptyText, NaN}] : cols \in SUBSET PayloadColumns}

\* the mappings tried: a dict, so no column twice, in any order; field ids
\* may be shared, as in PLACEHOLDER_MAPPING
PayloadMappings ==
    {m \in SeqsUpTo(PayloadColumns \X {SHARED_ID, EMAIL_ID}, MaxMapping) :
        \A j, k \in DOMAIN m : m[j][1] = m[k][1] => j = k}

InitPayload ==
    /\ pc = "idle"
    /\ args = NoArgs
    /\ log_exists = FALSE
    /\ log_lines = <<>>
    /\ indices = [start |-> 0, stop |-> 0]
    /\ i = 0
    /\ attempt = 0
    /\ sleeps = 0
    /\ ret = NoRet
    /\ outcomes = <<>>
    /\ submitted = <<>>
    /\ printed = {}
    /\ okRows = {}
    /\ log_at_start = [exists |-> FALSE, lines |-> <<>>]
    /\ ok_at_start = {}
    /\ src = <<>>
    /\ report = NoReport
    /\ mapping \in PayloadMappings
    /\ payload \in {[state |-> "called", row |-> r, result |-> EmptyPayload] :
                       r \in PayloadRows}
    /\ logs = NoLogs
    /\ writers = NoWriters

\* the call build_payload_from_row(row, mapping) returns
build_payload ==
    /\ payload.state = "called"
    /\ payload' = [state |-> "returned", row |-> payload.row,
                   result |-> build_payload_from_row(payload.row, mapping)]
    /\ UNCHANGED <<pc, args, log_exists, log_lines, indices, i, attempt, sleeps, ret,
                   outcomes, submitted, printed, okRows, log_at_start, ok_at_start,
                   src, report, mapping, logs, writers>>

NextPayload == build_payload

SpecPayload == InitPayload /\ [][NextPayload]_vars

\* the entries of the mapping that name field id id
EntriesFor(id) == {n \in DOMAIN mapping : mapping[n][2] = id}

\* C25: the payload has exactly one key per field id among the mapping's
\* values; a key holds the row's value of the last column mapped to it, and
\* the empty text when the row lacks that column or has no value for it.
C25_PayloadKeySet ==
    payload.state = "returned" =>
        /\ DOMAIN payload.result = {mapping[n][2] : n \in DOMAIN mapping}
        /\ \A id \in DOMAIN payload.result :
              LET col == mapping[Max(EntriesFor(id))][1]
              IN payload.result[id] =
                     IF col \in DOMAIN payload.row /\ payload.row[col] # NaN
                     THEN payload.row[col] ELSE EmptyText

\* three columns, two of them sharing a field id with different values, the
\* third absent from the row, and a missing value under the other id
C25_Witness ==
    /\ payload.state = "returned"
    /\ Len(mapping) = 3
    /\ Cardinality(EntriesFor(SHARED_ID)) = 2
    /\ \E j, k \in EntriesFor(SHARED_ID) :
          /\ j < k
          /\ mapping[j][1] \in DOMAIN payload.row
          /\ mapping[k][1] \in DOMAIN payload.row
          /\ payload.row[mapping[j][1]] = TextA
          /\ payload.row[mapping[k][1]] = TextB
    /\ payload.result[SHARED_ID] = TextB
    /\ \E n \in EntriesFor(EMAIL_ID) : mapping[n][1] \notin DOMAIN payload.row
    /\ payload.result[EMAIL_ID] = EmptyText

\* ------------------------------------------------- the per-chunk scripts
\* main() of src/post_chunk_poster.py and of src/retry_failed.py, which differ
\* in the name of the log file and in their delays only.  src is the input
\* file, a table whose columns are field ids; logs[s] is the log file script
\* s derives from the input file's name.
SCRIPT_COLUMNS == {"timestamp", "row_index", "name", "email", "success", "status"}
SCRIPT_HEADER == [kind |-> "header", cols |-> SCRIPT_COLUMNS]

ChunkTable(n) == [k \in 1 .. n |-> (NAME_ID :> TextA) @@ (EMAIL_ID :> TextB)]

InitChunk ==
    /\ pc = "idle"
    /\ args = NoArgs
    /\ log_exists = FALSE
    /\ log_lines = <<>>
    /\ indices = [start |-> 0, stop |-> 0]
    /\ i = 0
    /\ attempt = 0
    /\ sleeps = 0
    /\ ret = NoRet
    /\ outcomes = <<>>
    /\ submitted = <<>>
    /\ printed = {}
    /\ okRows = {}
    /\ log_at_start = [exists |-> FALSE, lines |-> <<>>]
    /\ ok_at_start = {}
    /\ src \in {ChunkTable(n) : n \in 0 .. MaxSrcRows}
    /\ report = NoReport
    /\ mapping = <<>>
    /\ payload = NoPayload
    /\ logs = NoLogs
    /\ writers = NoWriters

\* main() up to the loop: sys.exit(1) when the input file is not there, else
\* open(log_path, "w") and the header row
script_start(s, infile_exists) ==
    /\ pc = "idle"
    /\ args' = [script |-> s]
    /\ log_at_start' = logs[s]
    /\ i' = 0
    /\ IF ~infile_exists
       THEN pc' = "aborted" /\ UNCHANGED logs
       ELSE /\ pc' = "rows"
            /\ logs' = [logs EXCEPT ![s] = [exists |-> TRUE, lines |-> <<SCRIPT_HEADER>>]]
    /\ UNCHANGED <<log_exists, log_lines, indices, attempt, sleeps, ret, outcomes,
                   submitted, printed, okRows, ok_at_start, src, report, mapping,
                   payload, writers>>

\* one turn of the loop over df.iterrows(): one POST answered with o, the
\* record written and flushed
script_row(o) ==
    /\ pc = "rows"
    /\ i < Len(src)
    /\ LET ok == o # ExcOutcome /\ is_success_status(o)
           row == [kind |-> "row", row_index |-> i, success |-> PyStr(ok), status |-> o]
       IN logs' = [logs EXCEPT ![args.script].lines = Append(@, row)]
    /\ i' = i + 1
    /\ UNCHANGED <<pc, args, log_exists, log_lines, indices, attempt, sleeps, ret,
                   outcomes, submitted, printed, okRows, log_at_start, ok_at_start,
                   src, report, mapping, payload, writers>>

\* the loop is over and the log file is closed
script_done ==
    /\ pc = "rows"
    /\ i >= Len(src)
    /\ pc' = "done"
    /\ UNCHANGED <<args, log_exists, log_lines, indices, i, attempt, sleeps, ret,
                   outcomes, submitted, printed, okRows, log_at_start, ok_at_start,
                   src, report, mapping, payload, logs, writers>>

\* the script's process is gone
script_exit ==
    /\ pc \in {"done", "aborted"}
    /\ pc' = "idle"
    /\ args' = NoArgs
    /\ i' = 0
    /\ log_at_start' = [exists |-> FALSE, lines |-> <<>>]
    /\ UNCHANGED <<log_exists, log_lines, indices, attempt, sleeps, ret, outcomes,
                   submitted, printed, okRows, ok_at_start, src, report, mapping,
                   payload, logs, writers>>

NextChunk ==
    \/ \E s \in Scripts, infile_exists \in BOOLEAN : script_start(s, infile_exists)
    \/ \E o \in Outcomes : script_row(o)
    \/ script_done
    \/ script_exit

SpecChunk == InitChunk /\ [][NextChunk]_vars

\* C26: a run of post_chunk_poster or of retry_failed keeps every line its
\* log file held and only adds lines after them.
C26_ScriptsAppendOnly ==
    [][\A s \in Scripts : IsPrefix(logs[s].lines, logs'[s].lines)]_vars

\* --------------------------------------- the driver, row by row, with contents
\* main() of auto_submit_gform.py once more, one step per row and with the
\* contents of the rows: the table is loaded when the run starts (df), each
\* turn of the loop builds the payload and its preview, takes the result of
\* post_with_retries (its last outcome o) and writes the record with the
\* preview.  The tables tried have every mapped column.
PREVIEW_MAX == 140    \* v[:140]
MaxCycleLedger == 4   \* most records a ledger holds when a run without resume starts

\* a text one character longer than a preview keeps
LongText == [k \in 1 .. PREVIEW_MAX + 1 |-> "x"]

\* the mapping of config.json that field_map of the reconciler mirrors
DRIVER_MAPPING == [n \in DOMAIN FIELD_MAP |-> <<FIELD_MAP[n][2], FIELD_MAP[n][1]>>]

ContentRows ==
    {[Name |-> x, Department |-> TextC, Email |-> TextB] : x \in {TextA, TextSpA, LongText}}

ContentTables == SeqsUpTo(ContentRows, MaxSrcRows)

\* str({k: v[:140] for k, v in payload.items()}), as literal_eval reads it back
payload_preview(p) ==
    [kind |-> "dict",
     d |-> [k \in DOMAIN p |-> SubSeq(p[k], 1, Min2(Len(p[k]), PREVIEW_MAX))]]

\* the record the loop body writes for row k of table df
ledger_record(df, k, o) ==
    LET ok == o # ExcOutcome /\ is_success_status(o)
    IN [kind |-> "row", row_index |-> k, success |-> PyStr(ok),
        status |-> IF ok THEN o ELSE NoStatus,
        payload_preview |-> payload_preview(build_payload_from_row(df[k + 1], mapping))]

\* main() up to the loop, on the source table or on the retry-candidate
\* table; rep is what becomes of the reconciler's output
run_start(csv, resume, rep) ==
    /\ pc = "idle"
    /\ args' = [csv |-> csv, resume |-> resume,
                df |-> IF csv = "source" THEN src ELSE report.failed_rows]
    /\ i' = IF resume THEN read_resume_index(log_exists, log_lines) ELSE 0
    /\ pc' = "rows"
    /\ report' = rep
    /\ log_at_start' = [exists |-> log_exists, lines |-> log_lines]
    /\ UNCHANGED <<log_exists, log_lines, indices, attempt, sleeps, ret, outcomes,
                   submitted, printed, okRows, ok_at_start, src, mapping, payload,
                   logs, writers>>

\* one turn of the loop
run_row(o) ==
    /\ pc = "rows"
    /\ i < Len(args.df)
    /\ log_lines' = (IF log_exists THEN log_lines ELSE <<HEADER>>)
                        \o <<ledger_record(args.df, i, o)>>
    /\ log_exists' = TRUE
    /\ i' = i + 1
    /\ UNCHANGED <<pc, args, indices, attempt, sleeps, ret, outcomes, submitted,
                   printed, okRows, log_at_start, ok_at_start, src, report, mapping,
                   payload, logs, writers>>

\* the loop is over, main() returns
run_end ==
    /\ pc = "rows"
    /\ i >= Len(args.df)
    /\ pc' = "idle"
    /\ args' = NoArgs
    /\ i' = 0
    /\ UNCHANGED <<log_exists, log_lines, indices, attempt, sleeps, ret, outcomes,
                   submitted, printed, okRows, log_at_start, ok_at_start, src, report,
                   mapping, payload, logs, writers>>

\* ------------------------------------------------------- the preview round trip
\* Driver runs on a source table, then the reconciler on the ledger they
\* left and the same table.
InitRoundTrip ==
    /\ pc = "idle"
    /\ args = NoArgs
    /\ log_exists = FALSE
    /\ log_lines = <<>>
    /\ indices = [start |-> 0, stop |-> 0]
    /\ i = 0
    /\ attempt = 0
    /\ sleeps = 0
    /\ ret = NoRet
    /\ outcomes = <<>>
    /\ submitted = <<>>
    /\ printed = {}
    /\ okRows = {}
    /\ log_at_start = [exists |-> FALSE, lines |-> <<>>]
    /\ ok_at_start = {}
    /\ src \in ContentTables
    /\ report = NoReport
    /\ mapping = DRIVER_MAPPING
    /\ payload = NoPayload
    /\ logs = NoLogs
    /\ writers = NoWriters

roundtrip_run ==
    /\ report.state = "none"
    /\ \E resume \in BOOLEAN :
          /\ NumRecords + Len(src)
                 - (IF resume THEN read_resume_index(log_exists, log_lines) ELSE 0)
               <= MaxLogRows
          /\ run_start("source", resume, report)

NextRoundTrip ==
    \/ roundtrip_run
    \/ \E o \in Outcomes : run_row(o)
    \/ run_end
    \/ verify_main

SpecRoundTrip == InitRoundTrip /\ [][NextRoundTrip]_vars

\* C30: a row the ledger records as submitted successfully has no mismatch
\* entry in the reconciler's report.
C30_PreviewRoundTrip ==
    Reported =>
        \A m \in DOMAIN report.mismatches : ~HasSuccess(report.mismatches[m].idx)

\* ------------------------------------------------- reconcile, retry, reconcile
\* The cycle on a ledger that earlier runs on the source left: the
\* reconciler, then the driver on the retry-candidate table it wrote, with
\* the same ledger and an endpoint that accepts every submission, then the
\* reconciler again.
AcceptedStatuses == {o \in StatusCodes : 200 <= o /\ o < 400}

\* the ledgers earlier runs on table t may have left
CycleLedgers(t) ==
    {<<HEADER>> \o q :
        q \in SeqsUpTo({ledger_record(t, k, o) : k \in 0 .. Len(t) - 1, o \in {200, 400}},
                       MaxLogRows)}

InitCycle ==
    /\ pc = "idle"
    /\ args = NoArgs
    /\ src \in ContentTables
    /\ mapping = DRIVER_MAPPING
    /\ log_exists = TRUE
    /\ log_lines \in CycleLedgers(src)
    /\ indices = [start |-> 0, stop |-> 0]
    /\ i = 0
    /\ attempt = 0
    /\ sleeps = 0
    /\ ret = NoRet
    /\ outcomes = <<>>
    /\ submitted = <<>>
    /\ printed = {}
    /\ okRows = {}
    /\ log_at_start = [exists |-> TRUE, lines |-> log_lines]
    /\ ok_at_start = {}
    /\ report = NoReport
    /\ payload = NoPayload
    /\ logs = NoLogs
    /\ writers = NoWriters

\* the retry-candidate table is fed back into the driver
cycle_retry ==
    /\ report.state = "done"
    /\ report.failed_rows_written
    /\ \E resume \in BOOLEAN :
          /\ ~resume => NumRecords + Len(report.failed_rows) <= MaxCycleLedger
          /\ run_start("failed_rows", resume, NoReport)

cycle_row == \E o \in AcceptedStatuses : run_row(o)

NextCycle ==
    \/ verify_main
    \/ cycle_retry
    \/ cycle_row
    \/ run_end

SpecCycle == InitCycle /\ [][NextCycle]_vars /\ WF_vars(NextCycle)

\* C28: the cycle eventually yields an empty missing-index list.
C28_Convergence ==
    <>(report.state = "done" /\ report.missing_indices = <<>>)

\* ------------------------------------------- two driver runs on one ledger
\* Two processes run main() without --resume on the same --log path, which
\* does not exist when the first of them starts.  Each turn of a run's loop
\* is post_with_retries followed by write_log_row, and write_log_row is three
\* steps another process can come between: Path(log_path).exists(), then
\* open(log_path, "a"), which creates the file, then the end of the with
\* block, when the buffered header and record reach the file in one append.
\* writers[r] holds run r's position and the locals total, i, (ok, status)
\* and file_exists.
MaxRaceRows == 2      \* most rows of a concurrent run's CSV
Runs == {"A", "B"}

\* what post_with_retries returns
PostResults ==
    {[ok |-> TRUE, status |-> st] : st \in {c \in StatusCodes : is_success_status(c)}}
        \cup {[ok |-> FALSE, status |-> NoStatus]}

NotStarted == [pc |-> "idle", total |-> 0, i |-> 0, ret |-> NoRet, file_exists |-> FALSE]

InitRace ==
    /\ pc = "idle"
    /\ args = NoArgs
    /\ log_exists = FALSE
    /\ log_lines = <<>>
    /\ indices = [start |-> 0, stop |-> 0]
    /\ i = 0
    /\ attempt = 0
    /\ sleeps = 0
    /\ ret = NoRet
    /\ outcomes = <<>>
    /\ submitted = <<>>
    /\ printed = {}
    /\ okRows = {}
    /\ log_at_start = [exists |-> FALSE, lines |-> <<>>]
    /\ ok_at_start = {}
    /\ src = <<>>
    /\ report = NoReport
    /\ mapping = <<>>
    /\ payload = NoPayload
    /\ logs = NoLogs
    /\ writers = [r \in Runs |-> NotStarted]

RaceUnchanged ==
    UNCHANGED <<pc, args, indices, i, attempt, sleeps, ret, outcomes, submitted,
                printed, okRows, log_at_start, ok_at_start, src, report, mapping,
                payload, logs>>

\* main() of run r up to the loop, on a CSV of n rows: indices = range(0, n)
race_start(r, n) ==
    /\ writers[r].pc = "idle"
    /\ writers' = [writers EXCEPT ![r] = [NotStarted EXCEPT !.pc = "loop", !.total = n]]
    /\ UNCHANGED <<log_exists, log_lines>>
    /\ RaceUnchanged

\* the loop body of run r up to the call of write_log_row: post_with_retries
\* returned res
race_post(r, res) ==
    /\ writers[r].pc = "loop"
    /\ writers[r].i < writers[r].total
    /\ writers' = [writers EXCEPT ![r].pc = "exists", ![r].ret = res]
    /\ UNCHANGED <<log_exists, log_lines>>
    /\ RaceUnchanged

\* write_log_row of run r: file_exists = Path(log_path).exists()
race_exists(r) ==
    /\ writers[r].pc = "exists"
    /\ writers' = [writers EXCEPT ![r].pc = "open", ![r].file_exists = log_exists]
    /\ UNCHANGED <<log_exists, log_lines>>
    /\ RaceUnchanged

\* write_log_row of run r: open(log_path, "a") creates the file if need be
race_open(r) ==
    /\ writers[r].pc = "open"
    /\ log_exists' = TRUE
    /\ writers' = [writers EXCEPT ![r].pc = "write"]
    /\ UNCHANGED log_lines
    /\ RaceUnchanged

\* write_log_row of run r: the header if the file was not there when run r
\* looked, the record, the file closed; then the rest of the loop body
race_write(r) ==
    /\ writers[r].pc = "write"
    /\ log_lines' = write_log_row(writers[r].file_exists, log_lines, writers[r].i,
                                  writers[r].ret.ok, writers[r].ret.status)
    /\ writers' = [writers EXCEPT ![r].pc = "loop", ![r].i = @ + 1]
    /\ UNCHANGED log_exists
    /\ RaceUnchanged

\* the loop of run r is over
race_done(r) ==
    /\ writers[r].pc = "loop"
    /\ writers[r].i >= writers[r].total
    /\ writers' = [writers EXCEPT ![r].pc = "done"]
    /\ UNCHANGED <<log_exists, log_lines>>
    /\ RaceUnchanged

NextRace ==
    \/ \E r \in Runs, n \in 1 .. MaxRaceRows : race_start(r, n)
    \/ \E r \in Runs, res \in PostResults : race_post(r, res)
    \/ \E r \in Runs : race_exists(r)
    \/ \E r \in Runs : race_open(r)
    \/ \E r \in Runs : race_write(r)
    \/ \E r \in Runs : race_done(r)

SpecRace == InitRace /\ [][NextRace]_vars

\* C31: however the write_log_row calls of the two runs interleave, a ledger
\* that holds anything starts with the header row, and every line after the
\* first is an outcome record, so the header occurs exactly once.
C31_OneHeaderUnderInterleaving ==
    log_lines # <<>> =>
        /\ log_lines[1] = HEADER
        /\ \A n \in 2 .. Len(log_lines) : log_lines[n].kind = "row"

====
